---- MODULE Spec2Model ----
(***************************************************************************)
(* Credential gateway of the Legal RAG MCP server: APIKeyMiddleware        *)
(* (api_key_auth.py) in front of the downstream handler, with the          *)
(* database-backed APIKeyDB (api_key_auth_db.py) and the administrative    *)
(* tool (manage_api_keys.py) acting on the same store.                     *)
(*                                                                         *)
(* Strings the code inspects character by character (the Authorization     *)
(* header) are sequences of one-character strings; "NBSP" stands for the   *)
(* single character U+00A0 and "EACUTE" for U+00E9.  Python's None is      *)
(* NoneInt for numeric columns,                                            *)
(* <<>> for expires_at and NoRecord for a record.                          *)
(***************************************************************************)
EXTENDS Integers, Sequences, FiniteSets, TLC

\* ---------------------------------------------------------------- bounds
NumReqs == 2
MaxTime == 300
MaxOthers == 100
MaxAccepted == 21
MaxKeys == 3
MaxOverlapped == 11
MaxClears == 2

Reqs == 1..NumReqs
TickSteps == {150}

\* ------------------------------------------------------ program constants
_cache_ttl == 300
_batch_update_threshold == 10
maxsize == 100
default_limit_per_minute == 60
default_limit_per_hour == 1000
default_limit_per_day == 10000

NoneInt == -1
NoRecord == [id |-> "none"]

PublicPaths_health_only == {"/health"}
PublicPaths == {"/health", "/"}
Paths == {"/health", "/", "/mcp"}

\* ------------------------------------------------------------ characters
Whitespace == {" ", "NBSP"}
BearerPrefix == <<"B", "e", "a", "r", "e", "r", " ">>
K1 == <<"k", "1">>
K2 == <<"k", "2">>
K3 == <<"k", "3">>
K_accent == <<"k", "EACUTE">>
H_Absent == <<>>
H_Bearer1 == BearerPrefix \o K1
H_Bearer2 == BearerPrefix \o K2
H_Basic == <<"B", "a", "s", "i", "c", " ">> \o K1
H_Blank == <<"NBSP">>
H_BearerAccent == BearerPrefix \o K_accent
Headers == {H_Absent, H_Bearer1, H_Bearer2, H_Basic, H_Blank, H_BearerAccent}

\* characters outside ASCII
NonAscii == {"NBSP", "EACUTE"}

isascii(s) == \A i \in 1..Len(s) : s[i] \notin NonAscii

startswith(s, p) == Len(s) >= Len(p) /\ SubSeq(s, 1, Len(p)) = p

RECURSIVE lstrip(_)
lstrip(s) == IF s # <<>> /\ Head(s) \in Whitespace THEN lstrip(Tail(s)) ELSE s

RECURSIVE rstrip(_)
rstrip(s) ==
    IF s # <<>> /\ s[Len(s)] \in Whitespace
    THEN rstrip(SubSeq(s, 1, Len(s) - 1)) ELSE s

strip(s) == rstrip(lstrip(s))

\* the leading run of non-whitespace characters of s
RECURSIVE word(_)
word(s) ==
    IF s = <<>> \/ Head(s) \in Whitespace THEN <<>>
    ELSE <<Head(s)>> \o word(Tail(s))

\* str.split() without arguments: the maximal non-whitespace runs
RECURSIVE split(_)
split(s) ==
    LET t == lstrip(s) IN
    IF t = <<>> THEN <<>>
    ELSE <<word(t)>> \o split(SubSeq(t, Len(word(t)) + 1, Len(t)))

\* str.replace(old, "", 1): drop the first occurrence of old
RECURSIVE replace_first(_, _)
replace_first(s, old) ==
    IF Len(s) < Len(old) THEN s
    ELSE IF startswith(s, old) THEN SubSeq(s, Len(old) + 1, Len(s))
    ELSE <<Head(s)>> \o replace_first(Tail(s), old)

\* str.split(sep) for a one-character separator: the pieces between the
\* separators, empty pieces included
RECURSIVE split_on(_, _)
split_on(s, sep) ==
    IF \A i \in 1..Len(s) : s[i] # sep THEN <<s>>
    ELSE LET i == CHOOSE i \in 1..Len(s) : s[i] = sep /\ \A j \in 1..(i - 1) : s[j] # sep
         IN <<SubSeq(s, 1, i - 1)>> \o split_on(SubSeq(s, i + 1, Len(s)), sep)

\* str.lower() on the letters the environment values are written with
lower_char(c) ==
    CASE c = "T" -> "t" [] c = "R" -> "r" [] c = "U" -> "u" [] c = "E" -> "e"
      [] OTHER -> c

lower(s) == [i \in 1..Len(s) |-> lower_char(s[i])]

\* a lookup key that is the token itself
_hash_key_plain(api_key) == [plain |-> api_key]

\* hashlib.sha256(...).hexdigest(): a collision-free digest of the token
_hash_key(api_key) == [sha256 |-> api_key]

\* dict.get(key, default)
dict_get(d, k, default) == IF k \in DOMAIN d THEN d[k] ELSE default

\* truth value of an int-or-None, as Python's "if x:"
truthy(x) == x # NoneInt /\ x # 0

\* ------------------------------------------------------------------ state
VARIABLES
    now,              \* wall clock, seconds
    db_mode,          \* APIKeyMiddleware.db_mode, fixed at construction
    faulty,           \* whether the store may raise on an operation in this run
    api_keys,         \* store table api_keys: id -> row
    rate_counters,    \* store-side window counters: id -> period -> [window, count]
    api_key_usage,    \* store table api_key_usage, in insertion order
    cache,            \* lru_cache of _get_cached_key, least recently used first
    _request_counts,  \* APIKeyDB._request_counts
    running,          \* request whose dispatch holds the event loop, 0 if none
    req,              \* per request: position in dispatch and its locals
    rpc_log,          \* history of check_rate_limit store calls
    trace             \* history of the calls a unit specification makes

vars == <<now, db_mode, faulty, trace, api_keys, rate_counters, api_key_usage,
          cache, _request_counts, running, req, rpc_log>>

KeyIds == {"id1"}
PeriodSet == {"minute", "hour", "day"}

\* APIKeyConfig the middleware is constructed with: the one the startup made
\* of the environment, or one key with a label
config ==
    IF trace.op = "startup" THEN trace.config
    ELSE [enabled |-> TRUE, api_keys |-> <<K1>>, key_names |-> [x \in {K1} |-> "ClientA"]]

\* whether the startup has added APIKeyMiddleware to the application
installed == trace.op = "startup" => trace.middleware

\* whether the server accepts requests
serving == trace.op = "startup" => trace.phase = "serving"

LimitChoices == {<<1, 2, 2>>, <<2, 1, 2>>, <<2, 2, 1>>, <<0, NoneInt, 1>>, <<0, 0, NoneInt>>}
ExpiryChoices == {<<>>, <<90, "">>, <<90, "+00:00">>, <<90, "Z">>}

Row(l, e) ==
    [id |-> "id1", key_hash |-> _hash_key(K1), client_name |-> "ClientA",
     is_active |-> TRUE, expires_at |-> e,
     rate_limit_per_minute |-> l[1], rate_limit_per_hour |-> l[2],
     rate_limit_per_day |-> l[3], total_requests |-> 0, last_used_at |-> NoneInt]

\* rows the administrative tool may have issued before the gateway starts
InitRows ==
    {Row(l, <<>>) : l \in LimitChoices} \cup {Row(<<1, 2, 2>>, e) : e \in ExpiryChoices}

NoTrace == [op |-> "none"]

IdleReq ==
    [pc |-> "idle", path |-> "/", auth_header |-> <<>>, api_key |-> <<>>,
     is_valid |-> FALSE, key_record |-> NoRecord, checked_at |-> NoneInt,
     fetched |-> FALSE, fetch_error |-> FALSE,
     fetch_query |-> [sha256 |-> <<>>], admitted_at |-> NoneInt,
     response_status |-> NoneInt, emitted |-> <<>>,
     rate |-> <<TRUE, "none", NoneInt>>, called_next |-> FALSE,
     state |-> [client_name |-> "unset", api_key_id |-> "unset"],
     status |-> 0, error_type |-> "none", received_format |-> <<>>,
     retry_after |-> NoneInt, header_retry_after |-> "None"]

Init ==
    /\ now = 0
    /\ db_mode \in BOOLEAN
    /\ faulty \in BOOLEAN
    /\ \E row \in InitRows :
          api_keys = [i \in KeyIds |-> IF db_mode THEN row ELSE Row(<<1, 2, 2>>, <<>>)]
    /\ rate_counters = [i \in KeyIds |-> [p \in PeriodSet |-> [window |-> 0, count |-> 0]]]
    /\ api_key_usage = <<>>
    /\ cache = <<>>
    /\ _request_counts = [i \in {} |-> 0]
    /\ running = 0
    /\ req = [r \in Reqs |-> IdleReq]
    /\ rpc_log = <<>>
    /\ trace = NoTrace

\* outcomes a store operation can have in this run
StoreOutcomes == IF faulty THEN {"ok", "error"} ELSE {"ok"}

SetReq(r, fields) == [req EXCEPT ![r] = fields @@ @]

\* ------------------------------------------------- environment-variable mode
\* [key.strip() for key in pieces if key.strip()]
RECURSIVE stripped_nonempty(_)
stripped_nonempty(pieces) ==
    IF pieces = <<>> THEN <<>>
    ELSE (IF strip(Head(pieces)) = <<>> THEN <<>> ELSE <<strip(Head(pieces))>>)
         \o stripped_nonempty(Tail(pieces))

\* the key:name pairs of MCP_API_KEY_NAMES, a later pair overriding an earlier
RECURSIVE names_from(_, _)
names_from(pairs, names) ==
    IF pairs = <<>> THEN names
    ELSE LET pair == Head(pairs)
             kv == split_on(pair, ":")
             key == strip(kv[1])
             name == strip(SubSeq(pair, Len(kv[1]) + 2, Len(pair)))
         IN names_from(Tail(pairs),
                IF \E i \in 1..Len(pair) : pair[i] = ":"
                THEN [x \in DOMAIN names \cup {key} |-> IF x = key THEN name ELSE names[x]]
                ELSE names)

TrueString == <<"t", "r", "u", "e">>

\* a from_env that keeps authentication enabled without any key
from_env_keeps_enabled(env) ==
    [enabled |-> lower(env.MCP_API_AUTH_ENABLED) = TrueString,
     api_keys |-> stripped_nonempty(split_on(env.MCP_API_KEYS, ",")),
     key_names |-> IF env.MCP_API_KEY_NAMES = <<>> THEN [x \in {} |-> <<>>]
                   ELSE names_from(split_on(env.MCP_API_KEY_NAMES, ","), [x \in {} |-> <<>>])]

\* APIKeyConfig.from_env: enabled only with at least one key
from_env(env) ==
    LET enabled == lower(env.MCP_API_AUTH_ENABLED) = TrueString
        keys == stripped_nonempty(split_on(env.MCP_API_KEYS, ","))
    IN [enabled |-> enabled /\ keys # <<>>,
        api_keys |-> keys,
        key_names |-> IF env.MCP_API_KEY_NAMES = <<>> THEN [x \in {} |-> <<>>]
                      ELSE names_from(split_on(env.MCP_API_KEY_NAMES, ","),
                                      [x \in {} |-> <<>>])]

\* a comparison that only looks at the length of the two strings
compare_digest_length(a, b) == Len(a) = Len(b)

\* secrets.compare_digest on two strings
compare_digest(a, b) == a = b

\* secrets.compare_digest raises TypeError on a str with a non-ASCII character
compare_digest_raises(a, b) == ~isascii(a) \/ ~isascii(b)

\* validate_api_key(provided_key, config), from the i-th configured key on:
\* (is_valid, client_name), whether a comparison raised, and the number of
\* compare_digest calls made; the loop returns at the first key that matches
RECURSIVE validate_static_from(_, _, _)
validate_static_from(provided_key, cfg, i) ==
    IF i > Len(cfg.api_keys) THEN <<FALSE, "None", FALSE, i - 1>>
    ELSE IF compare_digest_raises(provided_key, cfg.api_keys[i])
         THEN <<FALSE, "None", TRUE, i>>
    ELSE IF compare_digest(provided_key, cfg.api_keys[i])
         THEN <<TRUE, dict_get(cfg.key_names, cfg.api_keys[i], "Unknown"), FALSE, i>>
         ELSE validate_static_from(provided_key, cfg, i + 1)

validate_api_key_static(provided_key, cfg) == validate_static_from(provided_key, cfg, 1)

\* ----------------------------------------------------------- error responses
create_auth_error_response(received) ==
    [pc |-> "done", status |-> 401, error_type |-> "authentication_error",
     received_format |-> received]

\* a 429 that tells the time left in the running window
create_rate_limit_error_response_remaining(period, reset_seconds) ==
    [pc |-> "done", status |-> 429, error_type |-> "rate_limit_exceeded",
     retry_after |-> reset_seconds - (now % reset_seconds),
     header_retry_after |-> ToString(reset_seconds - (now % reset_seconds))]

\* the 429 response: "retry_after": reset_seconds in the body and
\* "Retry-After": str(reset_seconds) in the headers
create_rate_limit_error_response(period, reset_seconds) ==
    [pc |-> "done", status |-> 429, error_type |-> "rate_limit_exceeded",
     retry_after |-> reset_seconds, header_retry_after |-> ToString(reset_seconds)]

\* an exception that leaves dispatch: the server answers 500
unhandled_exception == [pc |-> "done", status |-> 500, error_type |-> "unhandled_exception"]

\* ------------------------------------------------------------------ dispatch
\* a gateway that takes the database branch in either mode
db_branch_always(mode_db) == TRUE

\* "if self.db_mode and self.db_client": db_client is set exactly in db_mode
db_branch(mode_db) == mode_db

\* a request enters the application: without the middleware it reaches the
\* handler; with it, dispatch runs from entry to the first store call or the
\* first return/await
DispatchEnter(r) ==
    /\ req[r].pc = "idle"
    /\ running = 0
    /\ serving
    /\ IF r = 1 THEN TRUE ELSE req[r - 1].pc # "idle"
    /\ \E path \in Paths, auth_header \in Headers :
        LET in == [path |-> path, auth_header |-> auth_header]
            api_key == strip(replace_first(auth_header, BearerPrefix))
            static == validate_api_key_static(api_key, config)
        IN
        IF ~installed \/ path \in PublicPaths
        THEN /\ req' = SetReq(r, [pc |-> "handler", called_next |-> TRUE] @@ in)
             /\ running' = 0
        ELSE IF auth_header = <<>>
        THEN /\ req' = SetReq(r, create_auth_error_response(<<>>) @@ in)
             /\ running' = 0
        ELSE IF ~startswith(auth_header, BearerPrefix)
        THEN /\ req' = SetReq(r,
                    (IF split(auth_header) = <<>> THEN unhandled_exception
                     ELSE create_auth_error_response(split(auth_header)[1])) @@ in)
             /\ running' = 0
        ELSE IF db_branch(db_mode)
        THEN /\ req' = SetReq(r, [pc |-> "validate", api_key |-> api_key] @@ in)
             /\ running' = r
        ELSE IF static[3]
        THEN /\ req' = SetReq(r, [api_key |-> api_key] @@ unhandled_exception @@ in)
             /\ running' = 0
        ELSE IF ~static[1]
        THEN /\ req' = SetReq(r, [api_key |-> api_key]
                                  @@ create_auth_error_response(<<>>) @@ in)
             /\ running' = 0
        ELSE /\ req' = SetReq(r, [pc |-> "handler", api_key |-> api_key,
                                   is_valid |-> TRUE, called_next |-> TRUE,
                                   state |-> [client_name |-> static[2],
                                              api_key_id |-> "unset"]] @@ in)
             /\ running' = 0
    /\ UNCHANGED <<now, db_mode, faulty, trace, api_keys, rate_counters, api_key_usage,
                   cache, _request_counts, rpc_log>>

\* ------------------------------------------------------------------- APIKeyDB
\* an lru_cache lookup that never finds its arguments
CacheIndex_never(c, key_hash, cache_key) == 0

\* index of the cache entry for the arguments (key_hash, cache_key), 0 if none
CacheIndex(c, key_hash, cache_key) ==
    IF \E i \in 1..Len(c) : c[i].key_hash = key_hash /\ c[i].cache_key = cache_key
    THEN CHOOSE i \in 1..Len(c) : c[i].key_hash = key_hash /\ c[i].cache_key = cache_key
    ELSE 0

Remove(c, i) == SubSeq(c, 1, i - 1) \o SubSeq(c, i + 1, Len(c))

\* lru_cache hit: the entry becomes the most recently used
CacheTouch(c, i) == Append(Remove(c, i), c[i])

\* a cache that stores without ever evicting
CacheStore_unbounded(c, key_hash, cache_key, value) ==
    Append(c, [key_hash |-> key_hash, cache_key |-> cache_key, value |-> value])

\* lru_cache miss: the result is stored, the least recently used entry leaves
\* when the cache is over maxsize
CacheStore(c, key_hash, cache_key, value) ==
    LET c1 == Append(c, [key_hash |-> key_hash, cache_key |-> cache_key, value |-> value])
    IN IF Len(c1) > maxsize THEN Tail(c1) ELSE c1

\* select * from api_keys where key_hash = ... and is_active: first row or None
FetchActive(table, key_hash) ==
    LET hits == {i \in DOMAIN table : table[i].key_hash = key_hash /\ table[i].is_active}
    IN IF hits = {} THEN NoRecord ELSE table[CHOOSE i \in hits : TRUE]

\* a _get_cached_key that answers with a row of the table when the store raises
_get_cached_key_fails_open(table, key_hash, outcome) ==
    IF outcome = "error" THEN table[CHOOSE i \in DOMAIN table : TRUE]
    ELSE FetchActive(table, key_hash)

\* body of _get_cached_key: the store answers, or raises and the except clause
\* returns None
_get_cached_key_body(table, key_hash, outcome) ==
    IF outcome = "error" THEN NoRecord ELSE FetchActive(table, key_hash)

\* expires_at.replace("Z", "+00:00") then datetime.fromisoformat: seconds and
\* whether the datetime carries a UTC offset
fromisoformat(expires_at) ==
    LET suffix == IF expires_at[2] = "Z" THEN "+00:00" ELSE expires_at[2]
    IN [t |-> expires_at[1], aware |-> suffix # ""]

\* expires_at < datetime.now(): an offset-aware value cannot be compared with
\* the naive now() and raises TypeError
ExpiryVerdict(expires_at, t) ==
    LET e == fromisoformat(expires_at)
    IN IF e.aware THEN "TypeError" ELSE IF e.t < t THEN "expired" ELSE "fresh"

\* a validation that never looks at expires_at
validate_result_no_expiry(key_record, t) ==
    IF key_record = NoRecord THEN <<FALSE, NoRecord>> ELSE <<TRUE, key_record>>

\* validate_api_key after _get_cached_key returned key_record
validate_result(key_record, t) ==
    IF key_record = NoRecord THEN <<FALSE, NoRecord>>
    ELSE IF key_record.expires_at # <<>> /\ ExpiryVerdict(key_record.expires_at, t) # "fresh"
    THEN <<FALSE, NoRecord>>
    ELSE <<TRUE, key_record>>

\* a cache key that never changes with the clock
cache_window_frozen(t) == 0

\* int(datetime.now().timestamp() / self._cache_ttl)
cache_window(t) == t \div _cache_ttl

\* db_client.validate_api_key(api_key) at time t on cache c and store table:
\* the new cache, whether the store was asked, what _get_cached_key returned
\* and the (is_valid, key_record) result
validate_api_key_db(c, table, t, api_key, outcome) ==
    LET key_hash == _hash_key(api_key)
        cache_key == ToString(cache_window(t))
        i == CacheIndex(c, key_hash, cache_key)
        key_record == IF i # 0 THEN c[i].value
                      ELSE _get_cached_key_body(table, key_hash, outcome)
    IN [cache |-> IF i # 0 THEN CacheTouch(c, i)
                  ELSE CacheStore(c, key_hash, cache_key, key_record),
        fetched |-> i = 0,
        key_hash |-> key_hash,
        key_record |-> key_record,
        result |-> validate_result(key_record, t)]

\* dispatch calls db_client.validate_api_key(api_key)
Validate(r) ==
    /\ req[r].pc = "validate"
    /\ running = r
    /\ \E outcome \in StoreOutcomes :
          LET v == validate_api_key_db(cache, api_keys, now, req[r].api_key, outcome)
          IN /\ ~v.fetched => outcome = "ok"
             /\ cache' = v.cache
             /\ req' = SetReq(r, [is_valid |-> v.result[1], key_record |-> v.result[2],
                                  checked_at |-> now, fetched |-> v.fetched,
                                  fetch_error |-> v.fetched /\ outcome = "error",
                                  fetch_query |-> IF v.fetched THEN v.key_hash
                                                  ELSE req[r].fetch_query,
                                  pc |-> IF v.result[1] THEN "rl_minute" ELSE "log401"])
    /\ UNCHANGED <<now, db_mode, faulty, trace, api_keys, rate_counters, api_key_usage,
                   _request_counts, running, rpc_log>>

\* a log_api_request that lets a store error out
log_api_request_reraises(outcome) == outcome = "error"

\* whether log_api_request raises into dispatch: its except clause logs the
\* error and returns
log_api_request_raises(outcome) == FALSE

\* what dispatch goes on to after awaiting log_api_request
after_log(fields, outcome) ==
    IF log_api_request_raises(outcome) THEN unhandled_exception ELSE fields

\* a log_api_request that keeps no row of a failed authentication
log_api_request_skips_401(r, api_key_id, status_code, outcome) ==
    IF outcome = "error" \/ status_code = 401 THEN api_key_usage
    ELSE Append(api_key_usage, [api_key_id |-> api_key_id, status_code |-> status_code,
                                request |-> r])

\* log_api_request: the insert into api_key_usage; an error is swallowed
log_api_request(r, api_key_id, status_code, outcome) ==
    IF outcome = "error" THEN api_key_usage
    ELSE Append(api_key_usage, [api_key_id |-> api_key_id, status_code |-> status_code,
                                request |-> r])

\* validation failed: log the request, answer 401
LogRejected401(r) ==
    /\ req[r].pc = "log401"
    /\ running = r
    /\ \E outcome \in StoreOutcomes :
          /\ api_key_usage' = log_api_request(r, "unknown", 401, outcome)
          /\ req' = SetReq(r, after_log(create_auth_error_response(<<>>), outcome)
                               @@ [emitted |-> Append(req[r].emitted,
                                       [api_key_id |-> "unknown", status_code |-> 401])])
    /\ running' = 0
    /\ UNCHANGED <<now, db_mode, faulty, trace, api_keys, rate_counters, cache,
                   _request_counts, rpc_log>>

\* ---------------------------------------------------------------- RateLimiter
PeriodSeconds(period) ==
    CASE period = "minute" -> 60 [] period = "hour" -> 3600 [] period = "day" -> 86400

\* store function check_rate_limit(p_api_key_id, p_period, p_limit): one atomic
\* increment-and-compare on the counter of the current window
rpc_window(period, t) == t \div PeriodSeconds(period)

rpc_count(counters, id, period, t) ==
    IF counters[id][period].window = rpc_window(period, t)
    THEN counters[id][period].count + 1 ELSE 1

rpc_counters(counters, id, period, t) ==
    [counters EXCEPT ![id][period] =
        [window |-> rpc_window(period, t), count |-> rpc_count(counters, id, period, t)]]

rpc_is_within_limit(counters, id, period, limit, t) ==
    rpc_count(counters, id, period, t) <= limit

\* the ceiling check_rate_limit reads for a period
limit_of(key_record, period) ==
    CASE period = "minute" -> dict_get(key_record, "rate_limit_per_minute", default_limit_per_minute)
      [] period = "hour" -> dict_get(key_record, "rate_limit_per_hour", default_limit_per_hour)
      [] period = "day" -> dict_get(key_record, "rate_limit_per_day", default_limit_per_day)

\* a ceiling test that also skips a ceiling of one
checks_limit_above_one(limit) == limit # NoneInt /\ limit > 1

\* whether check_rate_limit issues the store call for a ceiling
checks_limit(limit) == truthy(limit)

\* a limiter that never reports a violation
rate_verdict_lenient(within, period) == <<TRUE, "none", NoneInt>>

\* what check_rate_limit makes of a store answer for a period
rate_verdict(within, period) ==
    IF within THEN <<TRUE, "none", NoneInt>> ELSE <<FALSE, period, PeriodSeconds(period)>>

\* a limiter that fails closed
rate_on_exception_closed(period) == <<FALSE, period, PeriodSeconds(period)>>

\* what check_rate_limit returns when the store call raises: fail open
rate_on_exception(period) == <<TRUE, "none", NoneInt>>

\* one window of check_rate_limit: skipped, or one store call whose answer is
\* within (go on), exceeded (return) or an exception (fail open)
RateStep(r, period, next) ==
    LET id == req[r].key_record.id
        limit == limit_of(req[r].key_record, period)
    IN
    /\ running = r
    /\ IF ~checks_limit(limit)
       THEN /\ req' = SetReq(r, [pc |-> next])
            /\ UNCHANGED <<rate_counters, rpc_log>>
       ELSE \E outcome \in StoreOutcomes :
            IF outcome = "error"
            THEN /\ req' = SetReq(r, [pc |-> IF rate_on_exception(period)[1]
                                              THEN "admit" ELSE "log429",
                                       rate |-> rate_on_exception(period)])
                 /\ rpc_log' = Append(rpc_log, [request |-> r, id |-> id, period |-> period,
                                                window |-> rpc_window(period, now),
                                                limit |-> limit, answer |-> "error"])
                 /\ UNCHANGED rate_counters
            ELSE LET within == rpc_is_within_limit(rate_counters, id, period, limit, now)
                     verdict == rate_verdict(within, period)
                 IN /\ rate_counters' = rpc_counters(rate_counters, id, period, now)
                    /\ rpc_log' = Append(rpc_log, [request |-> r, id |-> id, period |-> period,
                                                   window |-> rpc_window(period, now),
                                                   limit |-> limit,
                                                   answer |-> IF within THEN "within" ELSE "exceeded"])
                    /\ req' = SetReq(r, [pc |-> IF verdict[1] THEN next ELSE "log429",
                                         rate |-> verdict])
    /\ UNCHANGED <<now, db_mode, faulty, trace, api_keys, api_key_usage, cache,
                   _request_counts, running>>

RateMinute(r) == req[r].pc = "rl_minute" /\ RateStep(r, "minute", "rl_hour")

\* the second window asking the store for the day counter
RateHour_asks_day(r) == req[r].pc = "rl_hour" /\ RateStep(r, "day", "rl_day")

RateHour(r) == req[r].pc = "rl_hour" /\ RateStep(r, "hour", "rl_day")

RateDay(r) == req[r].pc = "rl_day" /\ RateStep(r, "day", "admit")

\* rate limit exceeded: log the request, answer 429
LogRejected429(r) ==
    /\ req[r].pc = "log429"
    /\ running = r
    /\ \E outcome \in StoreOutcomes :
          /\ api_key_usage' = log_api_request(r, req[r].key_record.id, 429, outcome)
          /\ req' = SetReq(r, after_log(create_rate_limit_error_response(req[r].rate[2],
                                                                         req[r].rate[3]),
                                        outcome)
                               @@ [emitted |-> Append(req[r].emitted,
                                       [api_key_id |-> req[r].key_record.id,
                                        status_code |-> 429])])
    /\ running' = 0
    /\ UNCHANGED <<now, db_mode, faulty, trace, api_keys, rate_counters, cache,
                   _request_counts, rpc_log>>

\* ----------------------------------------------------------------- UsageRecorder
\* update_key_last_used(api_key_id, increment_requests=True): new counters and
\* new table, given the outcomes of the select and of the update
counts_after(counts, id, select_outcome) ==
    LET n == dict_get(counts, id, 0) + 1
    IN IF n % _batch_update_threshold = 0 /\ select_outcome = "ok"
       THEN [k \in DOMAIN counts \cup {id} |-> IF k = id THEN 0 ELSE counts[k]]
       ELSE [k \in DOMAIN counts \cup {id} |-> IF k = id THEN n ELSE counts[k]]

\* a flush that also marks the row inactive
update_data_deactivates(row, t, n) ==
    [row EXCEPT !.last_used_at = t, !.total_requests = row.total_requests + n,
                !.is_active = FALSE]

\* the row after update(update_data).eq("id", api_key_id): update_data holds
\* last_used_at and total_requests, the stored total plus the accumulated count
update_data(row, t, n) ==
    [row EXCEPT !.last_used_at = t, !.total_requests = row.total_requests + n]

\* a flush that adds one request instead of the accumulated count
table_after_adds_one(table, counts, id, t, select_outcome, update_outcome) ==
    LET n == dict_get(counts, id, 0) + 1
    IN IF n % _batch_update_threshold = 0 /\ select_outcome = "ok" /\ update_outcome = "ok"
          /\ id \in DOMAIN table
       THEN [table EXCEPT ![id].last_used_at = t,
                          ![id].total_requests = table[id].total_requests + 1]
       ELSE table

table_after(table, counts, id, t, select_outcome, update_outcome) ==
    LET n == dict_get(counts, id, 0) + 1
    IN IF n % _batch_update_threshold = 0 /\ select_outcome = "ok" /\ update_outcome = "ok"
          /\ id \in DOMAIN table
       THEN [table EXCEPT ![id] = update_data(table[id], t, n)]
       ELSE table

\* whether this call of update_key_last_used reaches the store
flushes(counts, id) == (dict_get(counts, id, 0) + 1) % _batch_update_threshold = 0

\* an update_key_last_used that lets a store error out
update_key_last_used_reraises(select_outcome, update_outcome) ==
    select_outcome = "error" \/ update_outcome = "error"

\* whether update_key_last_used raises into dispatch: its except clause logs
\* the error and returns
update_key_last_used_raises(select_outcome, update_outcome) == FALSE

\* a dispatch that attaches nothing to the request
request_state_unset(key_record) == [client_name |-> "unset", api_key_id |-> "unset"]

\* request.state.client_name and request.state.api_key_id of an accepted request
request_state(key_record) ==
    [client_name |-> key_record.client_name, api_key_id |-> key_record.id]

\* accepted: attach the client to the request, count it, call the handler
Admit(r) ==
    /\ req[r].pc = "admit"
    /\ running = r
    /\ LET id == req[r].key_record.id IN
       \E select_outcome \in StoreOutcomes, update_outcome \in StoreOutcomes :
          /\ ~flushes(_request_counts, id) => select_outcome = "ok" /\ update_outcome = "ok"
          /\ select_outcome = "error" => update_outcome = "ok"
          /\ _request_counts' = counts_after(_request_counts, id, select_outcome)
          /\ api_keys' = table_after(api_keys, _request_counts, id, now,
                                     select_outcome, update_outcome)
          /\ req' = SetReq(r,
                IF update_key_last_used_raises(select_outcome, update_outcome)
                THEN unhandled_exception
                ELSE [pc |-> "handler", called_next |-> TRUE, admitted_at |-> now,
                      state |-> request_state(req[r].key_record)])
    /\ running' = 0
    /\ UNCHANGED <<now, db_mode, faulty, trace, rate_counters, api_key_usage, cache, rpc_log>>

\* a gateway that logs the completion of every request
logs_completion_always(mode_db, path) == TRUE

\* whether dispatch is in its database branch when call_next returns: public
\* paths returned before it, the environment-variable branch returns call_next
logs_completion(mode_db, path) == mode_db /\ path \notin PublicPaths

\* the handler returned a response: outside database mode and on a public path
\* it is returned as it is; in database mode dispatch calls log_api_request
HandlerReturn(r) ==
    /\ req[r].pc = "handler"
    /\ running = 0
    /\ \E status_code \in {200} :
          IF logs_completion(db_mode, req[r].path)
          THEN /\ req' = SetReq(r, [pc |-> "log_final", response_status |-> status_code,
                                    emitted |-> Append(req[r].emitted,
                                        [api_key_id |-> req[r].key_record.id,
                                         status_code |-> status_code])])
               /\ running' = r
          ELSE /\ req' = SetReq(r, [pc |-> "done", response_status |-> status_code,
                                    status |-> status_code])
               /\ running' = 0
    /\ UNCHANGED <<now, db_mode, faulty, trace, api_keys, rate_counters, api_key_usage,
                   cache, _request_counts, rpc_log>>

\* the insert of log_api_request comes back from the store, done or failed
LogCompleted(r) ==
    /\ req[r].pc = "log_final"
    /\ running = r
    /\ \E outcome \in StoreOutcomes :
          /\ api_key_usage' = log_api_request(r, req[r].key_record.id,
                                              req[r].response_status, outcome)
          /\ req' = SetReq(r, after_log([pc |-> "return"], outcome))
          /\ running' = IF log_api_request_raises(outcome) THEN 0 ELSE r
    /\ UNCHANGED <<now, db_mode, faulty, trace, api_keys, rate_counters, cache,
                   _request_counts, rpc_log>>

\* "return response": the caller gets the handler's response
ReturnResponse(r) ==
    /\ req[r].pc = "return"
    /\ running = r
    /\ req' = SetReq(r, [pc |-> "done", status |-> req[r].response_status])
    /\ running' = 0
    /\ UNCHANGED <<now, db_mode, faulty, trace, api_keys, rate_counters, api_key_usage,
                   cache, _request_counts, rpc_log>>

\* the handler raised: the exception leaves dispatch, nothing is logged
HandlerRaise(r) ==
    /\ req[r].pc = "handler"
    /\ running = 0
    /\ req' = SetReq(r, unhandled_exception)
    /\ UNCHANGED <<now, db_mode, faulty, trace, api_keys, rate_counters, api_key_usage,
                   cache, _request_counts, running, rpc_log>>

\* ------------------------------------------------------------------ environment
Tick(d) ==
    /\ now + d <= MaxTime
    /\ now' = now + d
    /\ UNCHANGED <<db_mode, faulty, trace, api_keys, rate_counters, api_key_usage, cache,
                   _request_counts, running, req, rpc_log>>

\* the validate-call history notes when a row first became inactive
NoteMutation(id) ==
    IF trace.op = "validate" /\ api_keys[id].is_active /\ trace.revoked_at = NoneInt
    THEN [trace EXCEPT !.revoked_at = now] ELSE trace

\* manage_api_keys.py revoke: the row is marked inactive in the store
revoke_api_key(id) ==
    /\ id \in DOMAIN api_keys
    /\ api_keys' = [api_keys EXCEPT ![id].is_active = FALSE]
    /\ trace' = NoteMutation(id)
    /\ UNCHANGED <<now, db_mode, faulty, rate_counters, api_key_usage, cache,
                   _request_counts, running, req, rpc_log>>

\* manage_api_keys.py rotate: a row with a new key and the old row's settings
\* is inserted, then the old row is marked inactive
rotate_api_key(id) ==
    /\ id \in DOMAIN api_keys
    /\ "id2" \notin DOMAIN api_keys
    /\ api_keys' = [i \in DOMAIN api_keys \cup {"id2"} |->
                       IF i = "id2"
                       THEN [api_keys[id] EXCEPT !.id = "id2", !.key_hash = _hash_key(K2),
                                                 !.is_active = TRUE, !.total_requests = 0,
                                                 !.last_used_at = NoneInt]
                       ELSE IF i = id THEN [api_keys[i] EXCEPT !.is_active = FALSE]
                       ELSE api_keys[i]]
    /\ trace' = NoteMutation(id)
    /\ UNCHANGED <<now, db_mode, faulty, rate_counters, api_key_usage, cache,
                   _request_counts, running, req, rpc_log>>

Next ==
    \/ \E r \in Reqs : DispatchEnter(r)
    \/ \E r \in Reqs : Validate(r)
    \/ \E r \in Reqs : LogRejected401(r)
    \/ \E r \in Reqs : RateMinute(r)
    \/ \E r \in Reqs : RateHour(r)
    \/ \E r \in Reqs : RateDay(r)
    \/ \E r \in Reqs : LogRejected429(r)
    \/ \E r \in Reqs : Admit(r)
    \/ \E r \in Reqs : HandlerReturn(r)
    \/ \E r \in Reqs : LogCompleted(r)
    \/ \E r \in Reqs : ReturnResponse(r)
    \/ \E r \in Reqs : HandlerRaise(r)
    \/ \E d \in TickSteps : Tick(d)
    \/ \E id \in KeyIds : revoke_api_key(id)

Spec == Init /\ [][Next]_vars

TypeOK ==
    /\ now \in 0..MaxTime
    /\ running \in 0..NumReqs
    /\ \A r \in Reqs : req[r].pc \in {"idle", "validate", "log401", "rl_minute", "rl_hour",
                                       "rl_day", "log429", "admit", "handler", "log_final",
                                       "return", "done"}

\* -------------------------------------------------------------- server startup
\* The server is started with --http on an environment, then takes requests.
\* A request that enters the database branch is followed no further here.
EnabledChoices == {TrueString, <<"T", "r", "u", "e">>, <<"f", "a", "l", "s", "e">>}

KeysChoices == {<<>>, <<",">>, <<" ", ",", " ">>, K1, K1 \o <<",">> \o K2}

NamesChoices == {<<>>, K1 \o <<":", "A">>}

Environments ==
    [MCP_API_AUTH_ENABLED : EnabledChoices, MCP_API_KEYS : KeysChoices,
     MCP_API_KEY_NAMES : NamesChoices, MCP_API_AUTH_DB_ENABLED : EnabledChoices]

InitStartup ==
    /\ now = 0
    /\ db_mode = FALSE
    /\ faulty \in BOOLEAN
    /\ api_keys = [i \in KeyIds |-> Row(<<1, 2, 2>>, <<>>)]
    /\ rate_counters = [i \in KeyIds |-> [p \in PeriodSet |-> [window |-> 0, count |-> 0]]]
    /\ api_key_usage = <<>>
    /\ cache = <<>>
    /\ _request_counts = [i \in {} |-> 0]
    /\ running = 0
    /\ req = [r \in Reqs |-> IdleReq]
    /\ rpc_log = <<>>
    /\ \E env \in Environments :
          trace = [op |-> "startup", phase |-> "env", env |-> env,
                   config |-> [enabled |-> FALSE, api_keys |-> <<>>,
                               key_names |-> [x \in {} |-> <<>>]],
                   middleware |-> FALSE]

\* __main__ with --http: the configuration is loaded, the database client is
\* created when database mode is asked for (a failure falls back to the
\* environment-variable mode), and the middleware is added when either
\* authentication is enabled
Startup ==
    /\ trace.op = "startup"
    /\ trace.phase = "env"
    /\ \E outcome \in StoreOutcomes :
          LET auth_config == from_env(trace.env)
              db_auth_enabled == /\ lower(trace.env.MCP_API_AUTH_DB_ENABLED) = TrueString
                                 /\ outcome = "ok"
          IN /\ lower(trace.env.MCP_API_AUTH_DB_ENABLED) # TrueString => outcome = "ok"
             /\ db_mode' = db_auth_enabled
             /\ trace' = [trace EXCEPT !.phase = "serving", !.config = auth_config,
                                       !.middleware = db_auth_enabled \/ auth_config.enabled]
    /\ UNCHANGED <<now, faulty, api_keys, rate_counters, api_key_usage, cache,
                   _request_counts, running, req, rpc_log>>

NextStartup ==
    \/ Startup
    \/ \E r \in Reqs : DispatchEnter(r)
    \/ \E r \in Reqs : HandlerReturn(r)
    \/ \E r \in Reqs : HandlerRaise(r)

SpecStartup == InitStartup /\ [][NextStartup]_vars

\* ------------------------------------------- APIKeyDB.validate_api_key alone
\* The cache under many credentials: validate_api_key is called directly, for
\* the credential K1 of the store row and for up to MaxOthers credentials the
\* store does not know, each of these once and in a fixed order.
Other(k) == <<"o", ToString(k)>>

NoCall == [api_key |-> <<>>, at |-> NoneInt, fetched |-> FALSE, key_record |-> NoRecord,
           is_valid |-> FALSE, room |-> TRUE, again |-> FALSE]

NoFetch == [at |-> NoneInt, key_record |-> NoRecord]

InitCache ==
    /\ now = 0
    /\ db_mode = TRUE
    /\ faulty \in BOOLEAN
    /\ api_keys = [i \in KeyIds |-> Row(<<0, 0, NoneInt>>, <<>>)]
    /\ rate_counters = [i \in KeyIds |-> [p \in PeriodSet |-> [window |-> 0, count |-> 0]]]
    /\ api_key_usage = <<>>
    /\ cache = <<>>
    /\ _request_counts = [i \in {} |-> 0]
    /\ running = 0
    /\ req = [r \in Reqs |-> IdleReq]
    /\ rpc_log = <<>>
    /\ trace = [op |-> "validate", others |-> 0, since |-> 0, fetch |-> NoFetch,
                last |-> NoCall, revoked_at |-> NoneInt]

\* the time-bucket of an instant
Bucket(t) == IF t = NoneInt THEN NoneInt ELSE t \div _cache_ttl

\* validate_api_key(K1): the history keeps the latest store fetch for K1 and
\* this call, with whether a fetch had been made in this bucket before it
ValidateKnown ==
    /\ trace.op = "validate"
    /\ \E outcome \in StoreOutcomes :
          LET v == validate_api_key_db(cache, api_keys, now, K1, outcome)
              again == Bucket(trace.fetch.at) = Bucket(now)
          IN /\ ~v.fetched => outcome = "ok"
             /\ cache' = v.cache
             /\ trace' = [trace EXCEPT
                    !.since = 0,
                    !.fetch = IF v.fetched THEN [at |-> now, key_record |-> v.key_record] ELSE @,
                    !.last = [api_key |-> K1, at |-> now, fetched |-> v.fetched,
                              key_record |-> v.key_record, is_valid |-> v.result[1],
                              room |-> trace.since < maxsize, again |-> again]]
    /\ UNCHANGED <<now, db_mode, faulty, api_keys, rate_counters, api_key_usage,
                   _request_counts, running, req, rpc_log>>

\* validate_api_key(Other(k)) for the next credential the store does not know
ValidateOther(k) ==
    /\ trace.op = "validate"
    /\ k = trace.others + 1
    /\ \E outcome \in StoreOutcomes :
          LET v == validate_api_key_db(cache, api_keys, now, Other(k), outcome)
          IN /\ ~v.fetched => outcome = "ok"
             /\ cache' = v.cache
             /\ trace' = [trace EXCEPT !.others = k, !.since = @ + 1]
    /\ UNCHANGED <<now, db_mode, faulty, api_keys, rate_counters, api_key_usage,
                   _request_counts, running, req, rpc_log>>

\* many credentials within one bucket
NextCache ==
    \/ ValidateKnown
    \/ \E k \in 1..MaxOthers : ValidateOther(k)
    \/ \E id \in KeyIds : revoke_api_key(id)

SpecCache == InitCache /\ [][NextCache]_vars

\* one credential across buckets, the administrative tool at work
NextRollover ==
    \/ ValidateKnown
    \/ \E d \in TickSteps : Tick(d)
    \/ \E id \in KeyIds : revoke_api_key(id)
    \/ \E id \in KeyIds : rotate_api_key(id)

SpecRollover == InitCache /\ [][NextRollover]_vars

\* ------------------------------------------ clear_cache against cache fills
\* validate_api_key calls come one at a time from the event loop; lru_cache
\* runs _get_cached_key outside its own bookkeeping and stores the result when
\* the function has returned. clear_cache has no caller in the gateway: it is
\* taken here as called from outside the event loop (a signal handler runs
\* while the store call of a fill is blocked), so it can fall between the
\* store select of a fill and the storing of its result.
NoFill == [key_hash |-> _hash_key(<<>>), cache_key |-> "none", value |-> NoRecord,
           cleared |-> FALSE]

NoValidate == [api_key |-> <<>>, fetched |-> FALSE, is_valid |-> FALSE, first |-> FALSE]

InitInvalidate ==
    /\ now = 0
    /\ db_mode = TRUE
    /\ faulty \in BOOLEAN
    /\ api_keys = [i \in KeyIds |-> Row(<<0, 0, NoneInt>>, <<>>)]
    /\ rate_counters = [i \in KeyIds |-> [p \in PeriodSet |-> [window |-> 0, count |-> 0]]]
    /\ api_key_usage = <<>>
    /\ cache = <<>>
    /\ _request_counts = [i \in {} |-> 0]
    /\ running = 0
    /\ req = [r \in Reqs |-> IdleReq]
    /\ rpc_log = <<>>
    /\ trace = [op |-> "invalidate", fill |-> NoFill, filling |-> FALSE, stale |-> {},
                seen |-> {}, clears |-> 0, last |-> NoValidate]

\* validate_api_key(api_key) up to the return of the store select of
\* _get_cached_key; on a cache hit the call is over at once
ValidateBegin(api_key) ==
    /\ trace.op = "invalidate"
    /\ ~trace.filling
    /\ LET key_hash == _hash_key(api_key)
           cache_key == ToString(cache_window(now))
           i == CacheIndex(cache, key_hash, cache_key)
           first == api_key \notin trace.seen
       IN IF i # 0
          THEN /\ cache' = CacheTouch(cache, i)
               /\ trace' = [trace EXCEPT
                      !.seen = @ \cup {api_key},
                      !.last = [api_key |-> api_key, fetched |-> FALSE,
                                is_valid |-> validate_result(cache[i].value, now)[1],
                                first |-> first]]
          ELSE \E outcome \in StoreOutcomes :
               /\ cache' = cache
               /\ trace' = [trace EXCEPT
                      !.seen = @ \cup {api_key},
                      !.filling = TRUE,
                      !.fill = [key_hash |-> key_hash, cache_key |-> cache_key,
                                value |-> _get_cached_key_body(api_keys, key_hash, outcome),
                                cleared |-> FALSE],
                      !.last = [api_key |-> api_key, fetched |-> TRUE,
                                is_valid |-> FALSE, first |-> first]]
    /\ UNCHANGED <<now, db_mode, faulty, api_keys, rate_counters, api_key_usage,
                   _request_counts, running, req, rpc_log>>

\* _get_cached_key has returned: lru_cache stores the result and
\* validate_api_key checks the expiry
ValidateEnd ==
    /\ trace.op = "invalidate"
    /\ trace.filling
    /\ cache' = CacheStore(cache, trace.fill.key_hash, trace.fill.cache_key, trace.fill.value)
    /\ trace' = [trace EXCEPT
           !.filling = FALSE,
           !.fill = NoFill,
           !.stale = IF trace.fill.cleared
                    THEN @ \cup {<<trace.fill.key_hash, trace.fill.cache_key>>} ELSE @,
           !.last = [@ EXCEPT !.is_valid = validate_result(trace.fill.value, now)[1]]]
    /\ UNCHANGED <<now, db_mode, faulty, api_keys, rate_counters, api_key_usage,
                   _request_counts, running, req, rpc_log>>

\* self._get_cached_key.cache_clear()
clear_cache ==
    /\ trace.op = "invalidate"
    /\ trace.clears < MaxClears
    /\ cache' = <<>>
    /\ trace' = [trace EXCEPT
           !.clears = @ + 1,
           !.seen = {},
           !.stale = {},
           !.fill = IF trace.filling THEN [@ EXCEPT !.cleared = TRUE] ELSE @]
    /\ UNCHANGED <<now, db_mode, faulty, api_keys, rate_counters, api_key_usage,
                   _request_counts, running, req, rpc_log>>

NextInvalidate ==
    \/ \E api_key \in {K1, K2} : ValidateBegin(api_key)
    \/ ValidateEnd
    \/ clear_cache
    \/ \E d \in TickSteps : Tick(d)
    \/ \E id \in KeyIds : revoke_api_key(id)

SpecInvalidate == InitInvalidate /\ [][NextInvalidate]_vars

\* ------------------------------------------------ a long-lived credential
\* One client sends up to MaxAccepted requests, one after the other, each with
\* the valid credential K1 of a row without ceilings: dispatch from the point
\* where validation and the limiter have let the request through.
UnlimitedRow == Row(<<0, 0, NoneInt>>, <<>>)

InitRecorder ==
    /\ now = 0
    /\ db_mode = TRUE
    /\ faulty \in BOOLEAN
    /\ api_keys = [i \in KeyIds |-> UnlimitedRow]
    /\ rate_counters = [i \in KeyIds |-> [p \in PeriodSet |-> [window |-> 0, count |-> 0]]]
    /\ api_key_usage = <<>>
    /\ cache = <<>>
    /\ _request_counts = [i \in {} |-> 0]
    /\ running = 0
    /\ req = [r \in Reqs |-> IdleReq]
    /\ rpc_log = <<>>
    /\ trace = [op |-> "accepted", accepted |-> 0, overlap |-> FALSE]

\* dispatch up to the acceptance of the next request of the client
AcceptedArrives(r) ==
    /\ trace.op = "accepted"
    /\ r = 1 \/ trace.overlap
    /\ req[r].pc \in {"idle", "done"}
    /\ running = 0
    /\ trace.accepted < (IF trace.overlap THEN MaxOverlapped ELSE MaxAccepted)
    /\ req' = [req EXCEPT ![r] =
                  [pc |-> "admit", path |-> "/mcp", auth_header |-> H_Bearer1,
                   api_key |-> K1, is_valid |-> TRUE, key_record |-> UnlimitedRow,
                   checked_at |-> now] @@ IdleReq]
    /\ running' = r
    /\ trace' = [trace EXCEPT !.accepted = @ + 1]
    /\ UNCHANGED <<now, db_mode, faulty, api_keys, rate_counters, api_key_usage, cache,
                   _request_counts, rpc_log>>

NextRecorder ==
    \/ \E r \in Reqs : AcceptedArrives(r)
    \/ \E r \in Reqs : Admit(r)
    \/ \E r \in Reqs : HandlerReturn(r)
    \/ \E r \in Reqs : LogCompleted(r)
    \/ \E r \in Reqs : ReturnResponse(r)

SpecRecorder == InitRecorder /\ [][NextRecorder]_vars

\* --------------------------------- accepted requests of one client, overlapping
\* Two connections of the same client: a request is accepted while the other
\* one is at its handler or at its usage-log insert.
InitOverlap ==
    /\ now = 0
    /\ db_mode = TRUE
    /\ faulty \in BOOLEAN
    /\ api_keys = [i \in KeyIds |-> UnlimitedRow]
    /\ rate_counters = [i \in KeyIds |-> [p \in PeriodSet |-> [window |-> 0, count |-> 0]]]
    /\ api_key_usage = <<>>
    /\ cache = <<>>
    /\ _request_counts = [i \in {} |-> 0]
    /\ running = 0
    /\ req = [r \in Reqs |-> IdleReq]
    /\ rpc_log = <<>>
    /\ trace = [op |-> "accepted", accepted |-> 0, overlap |-> TRUE]

SpecOverlap == InitOverlap /\ [][NextRecorder]_vars

\* ------------------------------------------- validate_api_key (static) alone
\* validate_api_key is called once on a provided string and a configuration
\* of up to MaxKeys keys, some of them labelled
StaticKeys == {K1, K2, K3, K_accent}

StaticProbes == StaticKeys \cup {<<>>, <<"k">>}

KeyLists == UNION {[1..n -> StaticKeys] : n \in 0..MaxKeys}

KeyNames ==
    {[x \in {} |-> "ClientA"], [x \in {K1} |-> "ClientA"],
     [x \in {K1, K2} |-> IF x = K1 THEN "ClientA" ELSE "ClientB"]}

InitStatic ==
    /\ now = 0
    /\ db_mode = FALSE
    /\ faulty = FALSE
    /\ api_keys = [i \in KeyIds |-> Row(<<1, 2, 2>>, <<>>)]
    /\ rate_counters = [i \in KeyIds |-> [p \in PeriodSet |-> [window |-> 0, count |-> 0]]]
    /\ api_key_usage = <<>>
    /\ cache = <<>>
    /\ _request_counts = [i \in {} |-> 0]
    /\ running = 0
    /\ req = [r \in Reqs |-> IdleReq]
    /\ rpc_log = <<>>
    /\ \E provided_key \in StaticProbes, keys \in KeyLists, names \in KeyNames :
          trace = [op |-> "static", provided_key |-> provided_key,
                   config |-> [enabled |-> TRUE, api_keys |-> keys, key_names |-> names],
                   result |-> <<>>]

ValidateStatic ==
    /\ trace.op = "static"
    /\ trace.result = <<>>
    /\ trace' = [trace EXCEPT !.result = validate_api_key_static(trace.provided_key,
                                                                 trace.config)]
    /\ UNCHANGED <<now, db_mode, faulty, api_keys, rate_counters, api_key_usage, cache,
                   _request_counts, running, req, rpc_log>>

NextStatic == ValidateStatic

SpecStatic == InitStatic /\ [][NextStatic]_vars

\* ------------------------------------------------------------------ properties
Range(f) == {f[i] : i \in DOMAIN f}

Started(r) == req[r].pc # "idle"

\* a request the gateway answered itself with an error response
Rejected(r) == req[r].error_type \in {"authentication_error", "rate_limit_exceeded"}

LogOf(r) == {i \in DOMAIN rpc_log : rpc_log[i].request = r}

UsageOf(r) == {i \in DOMAIN api_key_usage : api_key_usage[i].request = r}

RECURSIVE SumCounts(_, _)
SumCounts(counts, ids) ==
    IF ids = {} THEN 0
    ELSE LET id == CHOOSE x \in ids : TRUE
         IN counts[id] + SumCounts(counts, ids \ {id})

\* C1: the downstream handler is called for a request only if its path is
\* public, or its credential is one of the configured ones (static mode), or its
\* credential was validated and no window check answered "exceeded" (database
\* mode); a request answered 401 or 429 by the gateway never reached the handler.
C1_HandlerOnlyOnAcceptance ==
    \A r \in Reqs :
        /\ req[r].called_next =>
              \/ req[r].path \in {"/health", "/"}
              \/ ~db_mode /\ req[r].api_key \in Range(config.api_keys)
              \/ /\ db_mode
                 /\ req[r].is_valid
                 /\ req[r].rate[1]
                 /\ \A i \in LogOf(r) : rpc_log[i].answer # "exceeded"
        /\ Rejected(r) => ~req[r].called_next /\ req[r].status \in {401, 429}
        /\ req[r].status \in {401, 429} => ~req[r].called_next

C1_Witness ==
    \E r1, r2 \in Reqs :
        /\ db_mode
        /\ req[r1].path = "/mcp" /\ req[r1].called_next /\ LogOf(r1) # {}
        /\ req[r2].status = 429 /\ ~req[r2].called_next

\* C2: a request to "/health" or "/" is forwarded whatever its Authorization
\* header, in either mode, and causes no validation, no window-counter call, no
\* batching-counter increment and no usage-log row.
C2_PublicPathsBypass ==
    /\ \A r \in Reqs :
          Started(r) /\ req[r].path \in {"/health", "/"} =>
              /\ req[r].called_next
              /\ req[r].pc \in {"handler", "done"}
              /\ ~Rejected(r)
              /\ req[r].checked_at = NoneInt
              /\ LogOf(r) = {}
              /\ UsageOf(r) = {}
    /\ SumCounts(_request_counts, DOMAIN _request_counts)
          <= Cardinality({r \in Reqs : req[r].called_next /\ req[r].path \notin {"/health", "/"}})

C2_Witness ==
    \E r1, r2 \in Reqs :
        /\ req[r1].path = "/" /\ req[r1].auth_header = H_Bearer2 /\ req[r1].status = 200
        /\ req[r2].path = "/health" /\ req[r2].auth_header = H_Absent /\ req[r2].status = 200

\* C3: a non-public request whose Authorization header is absent or does not
\* begin with "Bearer " is answered 401 with error_type "authentication_error"
\* (a malformed header echoing the received scheme), and neither the handler nor
\* a validation is invoked for it.
C3_MalformedHeaderRejected ==
    \A r \in Reqs :
        /\ Started(r)
        /\ req[r].path \notin {"/health", "/"}
        /\ req[r].auth_header = <<>> \/ ~startswith(req[r].auth_header, BearerPrefix)
        => /\ req[r].status = 401
           /\ req[r].error_type = "authentication_error"
           /\ req[r].auth_header # <<>> =>
                 startswith(req[r].auth_header, req[r].received_format)
                 /\ req[r].received_format # <<>>
           /\ ~req[r].called_next
           /\ req[r].checked_at = NoneInt
           /\ ~req[r].is_valid

\* position of a store call among the answered calls on the same window counter
Rank(i) ==
    Cardinality({j \in 1..i : /\ rpc_log[j].id = rpc_log[i].id
                              /\ rpc_log[j].period = rpc_log[i].period
                              /\ rpc_log[j].window = rpc_log[i].window
                              /\ rpc_log[j].answer # "error"})

SameCounter(i, j) ==
    /\ rpc_log[i].id = rpc_log[j].id
    /\ rpc_log[i].period = rpc_log[j].period
    /\ rpc_log[i].window = rpc_log[j].window

\* database-mode requests validated and admitted entirely inside minute window w
AdmittedInMinute(id, w) ==
    {r \in Reqs : /\ db_mode /\ req[r].called_next
                  /\ req[r].path \notin {"/health", "/"}
                  /\ req[r].key_record.id = id
                  /\ req[r].checked_at \div 60 = w
                  /\ req[r].admitted_at \div 60 = w}

\* C4: with a per-minute ceiling C >= 1 and a store that answers without
\* error, at most C requests of the credential are admitted within one
\* 60-second window, and the request that makes the (C+1)-th call on the
\* window is rejected with period "minute".
C4_MinuteCeiling ==
    ~faulty =>
        /\ \A id \in DOMAIN api_keys : \A w \in 0..(MaxTime \div 60) :
              api_keys[id].rate_limit_per_minute >= 1 =>
                 Cardinality(AdmittedInMinute(id, w)) <= api_keys[id].rate_limit_per_minute
        /\ \A i \in DOMAIN rpc_log :
              /\ rpc_log[i].period = "minute"
              /\ rpc_log[i].limit >= 1
              /\ Rank(i) > rpc_log[i].limit
              => /\ rpc_log[i].answer = "exceeded"
                 /\ req[rpc_log[i].request].rate = <<FALSE, "minute", 60>>
                 /\ ~req[rpc_log[i].request].called_next
                 /\ req[rpc_log[i].request].pc \in {"log429", "done"}
                 /\ req[rpc_log[i].request].pc = "done" => req[rpc_log[i].request].status = 429

C4_Witness ==
    /\ ~faulty
    /\ \E i \in DOMAIN rpc_log :
          /\ rpc_log[i].period = "minute"
          /\ rpc_log[i].limit >= 1
          /\ Rank(i) = rpc_log[i].limit + 1
          /\ req[rpc_log[i].request].status = 429

\* C5: when two requests of one credential meet on a window counter with one
\* unit left, the one whose call comes first is within the limit and the other
\* is rejected and never reaches the handler, however the two dispatches overlap.
C5_NoDoubleAdmission ==
    \A i, j \in DOMAIN rpc_log :
        /\ i < j
        /\ SameCounter(i, j)
        /\ rpc_log[i].request # rpc_log[j].request
        /\ rpc_log[i].answer # "error" /\ rpc_log[j].answer # "error"
        /\ rpc_log[i].limit >= 1
        /\ Rank(i) = rpc_log[i].limit
        => /\ rpc_log[i].answer = "within"
           /\ rpc_log[j].answer = "exceeded"
           /\ ~req[rpc_log[j].request].rate[1]
           /\ ~req[rpc_log[j].request].called_next

C5_Witness ==
    \E i, j \in DOMAIN rpc_log :
        /\ i < j
        /\ SameCounter(i, j)
        /\ Rank(i) = rpc_log[i].limit
        /\ req[rpc_log[i].request].pc = "handler"
        /\ req[rpc_log[j].request].status = 429

PeriodIndex(period) == CASE period = "minute" -> 1 [] period = "hour" -> 2 [] period = "day" -> 3

\* C6: the store calls of one check_rate_limit come in the order minute, hour,
\* day; every call but the last answered "within"; a call answered "exceeded"
\* is the last one, and its period is the period reported.
C6_FixedOrderShortCircuit ==
    \A r \in Reqs :
        /\ \A i, j \in LogOf(r) :
              i < j => /\ PeriodIndex(rpc_log[i].period) < PeriodIndex(rpc_log[j].period)
                       /\ rpc_log[i].answer = "within"
        /\ \A i \in LogOf(r) :
              rpc_log[i].answer = "exceeded" =>
                 /\ req[r].rate = <<FALSE, rpc_log[i].period, req[r].rate[3]>>
                 /\ req[r].pc \in {"log429", "done"}
        /\ ~req[r].rate[1] =>
              \E i \in LogOf(r) : rpc_log[i].answer = "exceeded" /\ rpc_log[i].period = req[r].rate[2]

C6_Witness ==
    \E r \in Reqs : \E i, j \in LogOf(r) :
        /\ rpc_log[i].period = "minute" /\ rpc_log[i].answer = "within"
        /\ rpc_log[j].period = "hour" /\ rpc_log[j].answer = "exceeded"
        /\ req[r].rate[2] = "hour"
        /\ req[r].status = 429
        /\ Cardinality(LogOf(r)) = 2

\* requests that came out of check_rate_limit within the limits, no store call
\* of theirs having raised
PassedLimiter(r) ==
    /\ db_mode
    /\ req[r].path \notin {"/health", "/"}
    /\ req[r].pc \in {"admit", "handler", "log_final", "return", "done"}
    /\ req[r].is_valid
    /\ req[r].rate[1]
    /\ \A i \in LogOf(r) : rpc_log[i].answer # "error"

CeilingsOf(row) ==
    [minute |-> row.rate_limit_per_minute, hour |-> row.rate_limit_per_hour,
     day |-> row.rate_limit_per_day]

\* C7: a window's store call is skipped exactly when its ceiling is unbounded
\* (None); every integer ceiling, 0 included, is checked through the store, so
\* a credential with a ceiling of 0 is never admitted.
C7_SkipOnlyUnbounded ==
    \A r \in Reqs :
        PassedLimiter(r) =>
            \A p \in PeriodSet :
                /\ (\E i \in LogOf(r) : rpc_log[i].period = p)
                      <=> CeilingsOf(req[r].key_record)[p] # NoneInt
                /\ CeilingsOf(req[r].key_record)[p] # 0

\* C8: a request one of whose window checks raised in the store comes out of
\* check_rate_limit as within the limits, is forwarded to the handler and is
\* never answered 429 or 401.
C8_FailOpen ==
    \A r \in Reqs :
        (\E i \in LogOf(r) : rpc_log[i].answer = "error") =>
            /\ req[r].rate = <<TRUE, "none", NoneInt>>
            /\ req[r].pc \in {"admit", "handler", "log_final", "return", "done"}
            /\ req[r].pc # "admit" => req[r].called_next
            /\ ~Rejected(r)
            /\ req[r].status \notin {401, 429}

C8_Witness ==
    \E r \in Reqs : \E i, j \in LogOf(r) :
        /\ rpc_log[i].answer = "within" /\ rpc_log[i].period = "minute"
        /\ rpc_log[j].answer = "error" /\ rpc_log[j].period = "hour"
        /\ req[r].status = 200

RowsOf(api_key) == {id \in DOMAIN api_keys : api_keys[id].key_hash = _hash_key(api_key)}

\* C9: validate_api_key returns valid only for a credential whose store row is
\* active at that moment, also after a revocation of a cached credential.
C9_NeverValidWhileInactive ==
    [][\A r \in Reqs :
          req[r].pc = "validate" /\ req'[r].pc = "rl_minute" =>
              \E id \in RowsOf(req[r].api_key) : api_keys[id].is_active]_vars

\* C10: validate_api_key never returns valid for a credential whose store row
\* has an expiry earlier than the time of the call, whether the row was just
\* fetched or is served from the cache.
C10_ExpiredAlwaysRejected ==
    \A r \in Reqs :
        db_mode /\ req[r].is_valid =>
            \A id \in RowsOf(req[r].api_key) :
                \/ api_keys[id].expires_at = <<>>
                \/ ~(api_keys[id].expires_at[1] < req[r].checked_at)

\* a row cached while unexpired, rejected from the cache once its expiry passed
C10_Witness ==
    \E r1, r2 \in Reqs :
        /\ db_mode
        /\ req[r1].api_key = K1 /\ req[r1].is_valid /\ req[r1].checked_at = 0
        /\ req[r2].api_key = K1 /\ ~req[r2].is_valid /\ req[r2].checked_at = 150
        /\ req[r2].status = 401
        /\ api_keys["id1"].is_active
        /\ api_keys["id1"].expires_at = <<90, "">>
        /\ Len(cache) = 1

\* C11 as stated: once the record of a credential was fetched in a bucket,
\* every later validate_api_key call for it in that bucket issues no store fetch
\* and gets what the first fetch returned, however many other credentials were
\* looked up in between.
C11_CachedForWholeBucket ==
    trace.op = "validate" /\ trace.last.again =>
        /\ ~trace.last.fetched
        /\ trace.last.key_record = trace.fetch.key_record

\* C11: once the record of a credential was fetched in a bucket, a later
\* validate_api_key call for it in that bucket issues no store fetch and gets
\* what the fetch that filled the cache entry returned, a revocation made
\* meanwhile unseen, as long as fewer than maxsize (100) other distinct
\* credentials were looked up since the credential's previous lookup.
C11_CachedWhileNotEvicted ==
    trace.op = "validate" /\ trace.last.again /\ trace.last.room =>
        /\ ~trace.last.fetched
        /\ trace.last.key_record = trace.fetch.key_record

\* a revoked credential still served from the cache after maxsize - 1 other
\* credentials were looked up
C11_Witness ==
    /\ trace.op = "validate"
    /\ trace.last.again /\ trace.last.room
    /\ ~trace.last.fetched
    /\ trace.last.is_valid
    /\ ~api_keys["id1"].is_active
    /\ trace.others = maxsize - 1
    /\ Len(cache) = maxsize

\* C12: a validate_api_key call made when no fetch for the credential has
\* happened yet in the current bucket (floor(now / 300)) issues a store fetch;
\* what a call gets was fetched in the call's own bucket; so a call never
\* returns valid for a credential whose row was made inactive in an earlier
\* bucket.
C12_FreshFetchAfterBoundary ==
    trace.op = "validate" /\ trace.last.at # NoneInt =>
        /\ ~trace.last.again => trace.last.fetched
        /\ Bucket(trace.fetch.at) = Bucket(trace.last.at)
        /\ trace.last.is_valid =>
              \/ trace.revoked_at = NoneInt
              \/ Bucket(trace.revoked_at) >= Bucket(trace.last.at)

\* a row cached in bucket 0, revoked in bucket 0, and rejected by the first
\* call of bucket 1, which fetched
C12_Witness ==
    /\ trace.op = "validate"
    /\ trace.revoked_at = 150
    /\ trace.last.at = 300
    /\ ~trace.last.again /\ trace.last.fetched
    /\ ~trace.last.is_valid
    /\ Len(cache) = 2
    /\ cache[1].value # NoRecord /\ cache[1].cache_key = "0"
    /\ cache[2].value = NoRecord /\ cache[2].cache_key = "1"
    /\ ~faulty

\* C13: when the administrative tool has revoked or rotated a credential, the
\* gateway's cache holds no entry at all.
C13_MutationEmptiesCache ==
    [][(\E id \in DOMAIN api_keys : api_keys[id].is_active /\ ~api_keys'[id].is_active)
          => cache' = <<>>]_vars

\* update_key_last_used calls made so far in a run of one client
Recorded == IF req[1].pc = "admit" THEN trace.accepted - 1 ELSE trace.accepted

\* C14: with threshold T = 10 and a store that answers without error, the T-th
\* accepted request of a credential, and no earlier one, writes last_used_at and
\* total_requests, exactly once and with the stored total plus T, and leaves
\* the in-memory counter at 0; the same again for every further T requests.
C14_FlushEveryThreshold ==
    trace.op = "accepted" /\ ~faulty =>
        /\ api_keys["id1"].total_requests
              = (Recorded \div _batch_update_threshold) * _batch_update_threshold
        /\ dict_get(_request_counts, "id1", 0) = Recorded % _batch_update_threshold
        /\ Recorded < _batch_update_threshold =>
              /\ api_keys["id1"].last_used_at = NoneInt
              /\ api_keys["id1"].total_requests = 0
        /\ Recorded >= _batch_update_threshold => api_keys["id1"].last_used_at = now

\* the state right after the tenth accepted request
C14_Witness ==
    /\ trace.op = "accepted" /\ ~faulty
    /\ Recorded = _batch_update_threshold
    /\ req[1].pc = "handler"
    /\ api_keys["id1"].total_requests = _batch_update_threshold
    /\ _request_counts["id1"] = 0

\* C15: after every update_key_last_used call, a store error during a flush
\* included, the pending counter of every credential lies in 0..threshold-1.
C15_PendingBelowThreshold ==
    \A id \in DOMAIN _request_counts :
        _request_counts[id] \in 0..(_batch_update_threshold - 1)

\* C16: a store failure while the usage-log row or the batched update is
\* written changes nothing in the response: every accepted request reaches the
\* handler and is answered with the handler's response, and no exception of
\* log_api_request or update_key_last_used leaves dispatch.
C16_StoreFailureInvisible ==
    trace.op = "accepted" =>
        \A r \in Reqs :
            /\ req[r].error_type # "unhandled_exception"
            /\ req[r].pc \in {"handler", "log_final", "return", "done"} => req[r].called_next
            /\ req[r].pc = "done" =>
                  /\ req[r].status = 200
                  /\ req[r].status = req[r].response_status
                  /\ req[r].error_type = "none"

\* eleven requests answered 200 although every usage-log insert failed and the
\* select of the tenth request's flush failed
C16_Witness ==
    /\ trace.op = "accepted" /\ faulty
    /\ trace.accepted = _batch_update_threshold + 1
    /\ req[1].pc = "done" /\ req[1].status = 200
    /\ api_key_usage = <<>>
    /\ _request_counts["id1"] = _batch_update_threshold + 1
    /\ api_keys["id1"].total_requests = 0

\* C17: for an accepted database-mode request whose handler has returned, the
\* return of the response to the caller is enabled whether or not the insert of
\* the usage-log row has come back from the store.
C17_ResponseNeverWaitsOnLog ==
    \A r \in Reqs :
        db_mode /\ req[r].pc \in {"log_final", "return"} => ENABLED ReturnResponse(r)

\* C18: every accepted database-mode request whose handler has finished, by
\* returning or by raising, has had exactly one usage-log entry emitted for it,
\* carrying the credential's id and the final status.
C18_OneLogEntryPerAccepted ==
    \A r \in Reqs :
        /\ db_mode
        /\ req[r].path \notin {"/health", "/"}
        /\ req[r].called_next
        /\ req[r].pc = "done"
        => /\ Len(req[r].emitted) = 1
           /\ req[r].emitted[1].api_key_id = req[r].key_record.id
           /\ req[r].emitted[1].status_code = req[r].status

\* C19: validate_api_key (static) returns invalid for every provided string
\* that is not in the configured list, and valid with the configured label, or
\* "Unknown" when there is none, for every string that is in it.
C19_StaticValidationExact ==
    trace.op = "static" /\ trace.result # <<>> =>
        /\ ~trace.result[3]
        /\ trace.result[1] <=> trace.provided_key \in Range(trace.config.api_keys)
        /\ trace.result[1] =>
              trace.result[2] = dict_get(trace.config.key_names, trace.provided_key, "Unknown")

\* C20: validate_api_key (static) makes as many comparisons as there are
\* configured keys, whether the provided string matches the first key, a later
\* one or none.
C20_ComparesEveryKey ==
    trace.op = "static" /\ trace.result # <<>> /\ ~trace.result[3] =>
        trace.result[4] = Len(trace.config.api_keys)

\* values of MCP_API_KEYS in which no key is written
BlankKeyLists == {<<>>, <<",">>, <<" ", ",", " ">>}

\* C21: started with MCP_API_AUTH_ENABLED true, no key in MCP_API_KEYS and
\* database mode not asked for, the configuration resolves to enabled = false
\* and no request, with or without an Authorization header, is rejected.
C21_EmptyListDisablesAuth ==
    /\ trace.op = "startup"
    /\ trace.phase = "serving"
    /\ trace.env.MCP_API_AUTH_ENABLED \in {<<"t", "r", "u", "e">>, <<"T", "r", "u", "e">>}
    /\ trace.env.MCP_API_KEYS \in BlankKeyLists
    /\ trace.env.MCP_API_AUTH_DB_ENABLED = <<"f", "a", "l", "s", "e">>
    => /\ ~trace.config.enabled
       /\ \A r \in Reqs :
             /\ req[r].status \notin {401, 429}
             /\ ~Rejected(r)
             /\ Started(r) => req[r].called_next

\* a request for /mcp without a header and one with an unknown key, both
\* answered by the handler
C21_Witness ==
    /\ trace.op = "startup"
    /\ trace.env.MCP_API_AUTH_ENABLED = <<"T", "r", "u", "e">>
    /\ trace.env.MCP_API_KEYS = <<" ", ",", " ">>
    /\ trace.env.MCP_API_AUTH_DB_ENABLED = <<"f", "a", "l", "s", "e">>
    /\ req[1].path = "/mcp" /\ req[1].auth_header = H_Absent /\ req[1].status = 200
    /\ req[2].path = "/mcp" /\ req[2].auth_header = H_Bearer2 /\ req[2].status = 200

\* C22: when the store raises while the credential of a request is fetched,
\* validate_api_key returns (False, None): the request is not admitted, the
\* handler is not called, and the answer is 401, never an unhandled exception.
C22_FetchErrorRejects ==
    \A r \in Reqs :
        req[r].fetch_error =>
            /\ ~req[r].is_valid
            /\ req[r].key_record = NoRecord
            /\ ~req[r].called_next
            /\ req[r].pc \in {"log401", "done"}
            /\ req[r].pc = "done" => req[r].status = 401 /\ req[r].error_type = "authentication_error"

\* the store raised on the fetch of a key whose row is active and unexpired,
\* and the request was answered
C22_Witness ==
    \E r \in Reqs :
        /\ req[r].fetch_error
        /\ req[r].api_key = K1
        /\ api_keys["id1"].is_active
        /\ api_keys["id1"].expires_at = <<>>
        /\ req[r].pc = "done"

\* C23: a rate-limit rejection carries the fixed duration of the violated
\* window (60 for minute, 3600 for hour, 86400 for day) whatever part of the
\* window has elapsed, and the 429 response repeats it in the retry_after body
\* field and in the Retry-After header, with error_type rate_limit_exceeded.
C23_FixedRetryAfter ==
    \A r \in Reqs :
        /\ req[r].pc = "log429" =>
              /\ req[r].rate[2] \in PeriodSet
              /\ req[r].rate[3] = CASE req[r].rate[2] = "minute" -> 60
                                    [] req[r].rate[2] = "hour" -> 3600
                                    [] req[r].rate[2] = "day" -> 86400
        /\ req[r].status = 429 =>
              /\ req[r].error_type = "rate_limit_exceeded"
              /\ req[r].retry_after = CASE req[r].rate[2] = "minute" -> 60
                                        [] req[r].rate[2] = "hour" -> 3600
                                        [] req[r].rate[2] = "day" -> 86400
              /\ req[r].header_retry_after = CASE req[r].rate[2] = "minute" -> "60"
                                               [] req[r].rate[2] = "hour" -> "3600"
                                               [] req[r].rate[2] = "day" -> "86400"

\* a minute-window rejection 30 seconds into the minute window 120..180
C23_Witness ==
    /\ now = 150
    /\ req[2].status = 429 /\ req[2].rate[2] = "minute" /\ req[2].checked_at = 150
    /\ req[1].status \in {200, 429}

\* update_key_last_used calls that have returned, over all connections
Counted == trace.accepted - Cardinality({r \in Reqs : req[r].pc = "admit"})

\* C24: however the accepted requests of one credential overlap, no increment
\* of the in-memory counter is lost and every crossing of the threshold
\* flushes once: after N accepted requests the store holds floor(N/T) flushes
\* of T requests and the flushed count plus the pending counter equals N.
C24_NoIncrementLost ==
    trace.op = "accepted" /\ trace.overlap =>
        /\ api_keys["id1"].total_requests + dict_get(_request_counts, "id1", 0) = Counted
        /\ api_keys["id1"].total_requests
              = (Counted \div _batch_update_threshold) * _batch_update_threshold

\* C25: in static mode no request, accepted or rejected, causes a store
\* operation (no credential fetch, no rate-limit counter call, no usage-log
\* insert, no last-used update), and no request is answered 429.
C25_StaticModeLeavesStoreAlone ==
    trace.op = "none" /\ ~db_mode =>
        /\ cache = <<>>
        /\ rpc_log = <<>>
        /\ api_key_usage = <<>>
        /\ DOMAIN _request_counts = {}
        /\ \A id \in DOMAIN api_keys :
              /\ api_keys[id].last_used_at = NoneInt
              /\ api_keys[id].total_requests = 0
        /\ \A id \in DOMAIN rate_counters, p \in PeriodSet : rate_counters[id][p].count = 0
        /\ \A r \in Reqs :
              /\ ~req[r].fetched
              /\ req[r].checked_at = NoneInt
              /\ req[r].emitted = <<>>
              /\ req[r].status # 429
              /\ req[r].pc \in {"idle", "handler", "done"}

\* static mode: one request accepted and answered by the handler, one rejected
C25_Witness ==
    /\ trace.op = "none" /\ ~db_mode
    /\ req[1].is_valid /\ req[1].path = "/mcp" /\ req[1].status = 200
    /\ req[2].path = "/mcp" /\ req[2].status = 401

\* C26: whenever the handler has been invoked for an accepted request on a
\* non-public path, the request's state already carries the owner label of the
\* credential, and in database mode the credential identifier as well.
C26_OwnerAttachedBeforeHandler ==
    trace.op = "none" =>
        \A r \in Reqs :
            req[r].called_next /\ req[r].path \notin PublicPaths =>
                /\ req[r].is_valid
                /\ req[r].state.client_name # "unset"
                /\ db_mode =>
                      /\ req[r].key_record # NoRecord
                      /\ req[r].state.client_name = req[r].key_record.client_name
                      /\ req[r].state.api_key_id = req[r].key_record.id
                /\ ~db_mode =>
                      req[r].state.client_name
                          = dict_get(config.key_names, req[r].api_key, "Unknown")

\* a request accepted in database mode is at the handler, carrying the client
\* name and the identifier of its record
C26_Witness ==
    /\ trace.op = "none" /\ db_mode
    /\ req[1].pc = "handler" /\ req[1].path = "/mcp"
    /\ req[1].state = [client_name |-> "ClientA", api_key_id |-> "id1"]

\* the credentials looked up so far, each counted once, from the least to the
\* most recently used: how many, and the i-th of them
UseLen == trace.others + (IF trace.last.at # NoneInt THEN 1 ELSE 0)

UseAt(i) ==
    IF i <= trace.others - trace.since THEN Other(i)
    ELSE IF trace.last.at # NoneInt /\ i = trace.others - trace.since + 1 THEN K1
    ELSE Other(IF trace.last.at # NoneInt THEN i - 1 ELSE i)

\* C27: the credential cache never holds more than maxsize (100) entries, and
\* they are the most recently used distinct credentials in order of use: an
\* insertion into a full cache evicts the least recently used entry.
C27_CacheBoundedLRU ==
    trace.op = "validate" =>
        /\ Len(cache) <= maxsize
        /\ Len(cache) = IF UseLen > maxsize THEN maxsize ELSE UseLen
        /\ \A i \in 1..Len(cache) :
              cache[i].key_hash = _hash_key(UseAt(UseLen - Len(cache) + i))

\* 101 credentials were looked up: the full cache lost the first unknown
\* credential, the least recently used, and kept the older but reused K1
C27_Witness ==
    /\ trace.op = "validate"
    /\ trace.others = maxsize
    /\ Len(cache) = maxsize
    /\ cache[1].key_hash = _hash_key(Other(2))
    /\ cache[maxsize].key_hash = _hash_key(K1)

\* C28: a request let through by check_rate_limit for a record without a
\* ceiling for a window (the column is null) has had that window checked by a
\* store counter call with the default ceiling (60, 1000, 10000).
C28_DefaultCeilingEnforced ==
    \A r \in Reqs :
        PassedLimiter(r) =>
            \A p \in PeriodSet :
                CeilingsOf(req[r].key_record)[p] = NoneInt =>
                    \E i \in LogOf(r) :
                        /\ rpc_log[i].period = p
                        /\ rpc_log[i].limit = CASE p = "minute" -> default_limit_per_minute
                                                [] p = "hour" -> default_limit_per_hour
                                                [] p = "day" -> default_limit_per_day

\* what the two modes have consulted, in any state
ModesExclusive ==
    trace.op = "none" =>
        \A r \in Reqs :
            /\ db_mode /\ req[r].path \notin PublicPaths /\ req[r].is_valid =>
                  /\ req[r].checked_at # NoneInt
                  /\ req[r].key_record # NoRecord
                  /\ req[r].key_record.key_hash = _hash_key(req[r].api_key)
                  /\ req[r].key_record.id \in DOMAIN api_keys
            /\ db_mode /\ req[r].fetched /\ req[r].key_record = NoRecord =>
                  /\ ~req[r].is_valid
                  /\ ~req[r].called_next
                  /\ req[r].pc = "done" => req[r].status = 401
            /\ ~db_mode =>
                  /\ req[r].checked_at = NoneInt
                  /\ ~req[r].fetched
                  /\ cache = <<>>
                  /\ req[r].is_valid => req[r].api_key \in Range(config.api_keys)

\* C29: the validation mode never changes once the gateway is constructed, and
\* the modes exclude each other: in database mode validity comes from a store
\* record only (a credential of the static list without an active store record
\* is rejected), and in static mode the store is never consulted.
C29_ModeFixedExclusive == []ModesExclusive /\ [][db_mode' = db_mode]_vars

\* database mode: the key K1 of the static list, its store row revoked, was
\* looked up in the store and rejected
C29_Witness ==
    /\ trace.op = "none" /\ db_mode
    /\ K1 \in Range(config.api_keys)
    /\ req[1].api_key = K1 /\ req[1].fetched /\ ~req[1].fetch_error
    /\ ~api_keys["id1"].is_active
    /\ req[1].status = 401

\* C30: no store operation carries the token of the Authorization header: the
\* credential lookup is keyed by the SHA-256 digest of the token only, and the
\* usage-log rows, the counter calls and the batched updates name the
\* credential by its identifier (or "unknown").
C30_NoPlaintextToStore ==
    trace.op = "none" =>
        /\ \A r \in Reqs :
              req[r].fetched => req[r].fetch_query = [sha256 |-> req[r].api_key]
        /\ \A i \in DOMAIN cache : DOMAIN cache[i].key_hash = {"sha256"}
        /\ \A i \in DOMAIN api_key_usage :
              /\ api_key_usage[i].api_key_id \in DOMAIN api_keys \cup {"unknown"}
              /\ DOMAIN api_key_usage[i] = {"api_key_id", "status_code", "request"}
        /\ \A i \in DOMAIN rpc_log : rpc_log[i].id \in DOMAIN api_keys
        /\ DOMAIN _request_counts \subseteq DOMAIN api_keys

\* a lookup for the token K1 went to the store, the request was logged and
\* counted
C30_Witness ==
    /\ trace.op = "none" /\ db_mode
    /\ req[1].api_key = K1 /\ req[1].fetched
    /\ req[1].fetch_query = [sha256 |-> K1]
    /\ req[1].status = 200
    /\ api_key_usage # <<>> /\ rpc_log # <<>>
    /\ req[2].api_key = K2 /\ req[2].fetched /\ req[2].status = 401

\* the fields of a credential record other than last_used_at and total_requests
Settings(row) ==
    [id |-> row.id, key_hash |-> row.key_hash, client_name |-> row.client_name,
     is_active |-> row.is_active, expires_at |-> row.expires_at,
     rate_limit_per_minute |-> row.rate_limit_per_minute,
     rate_limit_per_hour |-> row.rate_limit_per_hour,
     rate_limit_per_day |-> row.rate_limit_per_day]

\* a step of the administrative tool
AdminStep == \E id \in DOMAIN api_keys : revoke_api_key(id)

\* C31: a step of the gateway creates or deletes no credential record and
\* changes no hash, active flag, expiry, owner or ceiling of one; last_used_at
\* and total_requests change only in the flush of update_key_last_used, when
\* the pending counter of the credential reaches the threshold.
C31_GatewayWritesOnlyUsageFields ==
    [][AdminStep \/
       /\ DOMAIN api_keys' = DOMAIN api_keys
       /\ \A id \in DOMAIN api_keys :
             /\ Settings(api_keys'[id]) = Settings(api_keys[id])
             /\ api_keys'[id] # api_keys[id] =>
                   /\ flushes(_request_counts, id)
                   /\ \E r \in Reqs : req[r].pc = "admit" /\ req'[r].pc = "handler"
                                      /\ req[r].key_record.id = id]_vars

\* a flush has written the usage fields of a row whose settings are as the
\* administrative tool left them
C31_Witness ==
    /\ trace.op = "accepted"
    /\ api_keys["id1"].total_requests = _batch_update_threshold
    /\ api_keys["id1"].last_used_at = now
    /\ Settings(api_keys["id1"]) = Settings(UnlimitedRow)

\* C32: a database-mode request with a Bearer credential that is answered 401
\* or 429 has had exactly one usage-log entry emitted for it before the answer:
\* status 401 with identifier "unknown" when validation failed, status 429 with
\* the identifier of the resolved record when a ceiling was exceeded; with a
\* store that answers, that entry is the one row of the request in the log.
C32_OneLogEntryPerRejection ==
    \A r \in Reqs :
        /\ db_mode
        /\ req[r].path \notin {"/health", "/"}
        /\ startswith(req[r].auth_header, BearerPrefix)
        /\ req[r].status \in {401, 429}
        => /\ Len(req[r].emitted) = 1
           /\ req[r].emitted[1].status_code = req[r].status
           /\ req[r].status = 401 => req[r].emitted[1].api_key_id = "unknown"
           /\ req[r].status = 429 =>
                 /\ req[r].key_record # NoRecord
                 /\ req[r].emitted[1].api_key_id = req[r].key_record.id
           /\ ~faulty =>
                 /\ Cardinality(UsageOf(r)) = 1
                 /\ \A i \in UsageOf(r) :
                       /\ api_key_usage[i].status_code = req[r].emitted[1].status_code
                       /\ api_key_usage[i].api_key_id = req[r].emitted[1].api_key_id

\* the second request of a credential with a ceiling of one is answered 429,
\* its entry in the log after the entry of the first
C32_Witness ==
    /\ db_mode /\ ~faulty
    /\ req[1].status = 200
    /\ req[2].status = 429
    /\ req[2].emitted = <<[api_key_id |-> "id1", status_code |-> 429]>>
    /\ Len(api_key_usage) = 2
    /\ api_key_usage[2] = [api_key_id |-> "id1", status_code |-> 429, request |-> 2]

\* rows that make a credential acceptable at this moment: active and unexpired
UsableRows(api_key) ==
    {id \in RowsOf(api_key) :
        /\ api_keys[id].is_active
        /\ \/ api_keys[id].expires_at = <<>>
           \/ ~(api_keys[id].expires_at[1] < now)}

\* counter calls are made for validated requests only
LimiterAfterValidation ==
    \A r \in Reqs :
        /\ LogOf(r) # {} => req[r].is_valid /\ req[r].key_record # NoRecord
        /\ req[r].pc \in {"rl_minute", "rl_hour", "rl_day"} => req[r].is_valid

\* C33: validation comes before rate limiting, and a database-mode request
\* whose credential is, when it is validated, not found, inactive or expired
\* in the store never goes on to the rate limiter: it causes no counter call in
\* any window.
C33_InvalidNeverConsumesQuota ==
    /\ []LimiterAfterValidation
    /\ [][\A r \in Reqs :
             req[r].pc = "validate" /\ UsableRows(req[r].api_key) = {}
                 => req'[r].pc \notin {"rl_minute", "rl_hour", "rl_day"}]_vars

\* C34: after any sequence of accepted requests of a credential, a failed store
\* read or write of a flush included, what the gateway has added to the
\* persisted total_requests plus the pending in-memory counter equals the
\* number of requests that passed validation and the limiter.
C34_CountConserved ==
    trace.op = "accepted" /\ ~trace.overlap =>
        api_keys["id1"].total_requests + dict_get(_request_counts, "id1", 0) = Recorded

\* C35: a store error during a credential fetch affects only the call that hit
\* it: a later validate_api_key call for the same credential, its row active
\* and without expiry all along, that meets no store error is accepted, also in
\* the time-bucket of the failed fetch.
C35_FetchErrorNotSticky ==
    /\ trace.op = "validate"
    /\ trace.last.at # NoneInt
    /\ trace.last.again
    /\ ~trace.last.fetched
    /\ api_keys["id1"].is_active
    /\ api_keys["id1"].expires_at = <<>>
    => trace.last.is_valid

\* C36: for an active record found in the store, validate_api_key returns
\* valid exactly when the record has no expiry or its expiry is not earlier
\* than the time of the call, whatever the form of the stored timestamp, with
\* a UTC offset or without one.
C36_ValidIffUnexpired ==
    \A r \in Reqs :
        /\ db_mode
        /\ req[r].fetched /\ ~req[r].fetch_error
        /\ req[r].api_key = K1
        /\ api_keys["id1"].is_active
        => (req[r].is_valid <=>
               \/ api_keys["id1"].expires_at = <<>>
               \/ ~(api_keys["id1"].expires_at[1] < req[r].checked_at))

\* C37: when the environment asks for database mode, no request for a
\* non-public path reaches the handler without a successful validation of its
\* credential, also when the database client could not be created at startup
\* and the server fell back to the static configuration.
C37_DatabaseModeNeverOpen ==
    /\ trace.op = "startup"
    /\ trace.phase = "serving"
    /\ lower(trace.env.MCP_API_AUTH_DB_ENABLED) = <<"t", "r", "u", "e">>
    => \A r \in Reqs :
          req[r].called_next /\ req[r].path \notin {"/health", "/"} => req[r].is_valid

====
